---- MODULE Spec2Model ----
(***************************************************************************)
(* A model of SurvivalNet's analysis and example drivers:                  *)
(*   - ClusterAssociations and the annotation-track part of RiskCluster    *)
(*     (src/survivalnet/analysis/RiskCluster.py),                          *)
(*   - the feature ranking at the head of RiskCluster,                     *)
(*   - the shuffle loop of Run (src/examples/Run1.py).                     *)
(* Strings are sequences of one-character strings, so that slicing,        *)
(* rfind and strip are computed and not assumed.  Real numbers are exact   *)
(* rationals or integer brackets [lo, hi]; a comparison the brackets do    *)
(* not decide is left open (both outcomes).                                *)
(***************************************************************************)
EXTENDS Integers, Sequences, FiniteSets

VARIABLES
    \* ---- ClusterAssociations(Raw, Symbols, Labels, Tau) and its caller
    Raw,            \* samples x features matrix of raw values
    Symbols,        \* feature names, one per column of Raw
    Labels,         \* cluster label of every sample, in 1..K
    Tau,            \* significance threshold, a rational [num, den]
    Significant,    \* the list being built and returned (symbols)
    SignificantIdx, \* history: the feature index behind every entry
    Tested,         \* history: every test that ran, [f, kind, outcome]
    Mutations,      \* ClusterAssociations: indices with suffix "Mut"
    CNVs,           \* ClusterAssociations: indices with suffix "CNV"
    ca_i,           \* loop counter of the running loop (0-based, as np.arange)
    ca_p,           \* the local p: "unbound", "nan", "sig" (p < Tau), "nonsig"
    ca_pc,          \* "off", "start", "mut", "cnv", "returned", "raised", "done"
    ca_err,         \* exception that ended the call, or "none"
    SampleOrder,    \* RiskCluster: dendrogram leaf order of the samples
    SigMut,         \* RiskCluster: significant symbols ending in "_Mut"
    SigCNV,         \* RiskCluster: significant symbols ending in "_CNV"
    RC_Mutations,   \* RiskCluster: annotation matrix Mutations (rows x samples)
    RC_CNVs,        \* RiskCluster: annotation matrix CNVs
    \* ---- RiskCluster, feature ranking (lines 76-80)
    Gradients,      \* samples x features matrix of gradients
    N,              \* number of features to keep
    Order,          \* np.argsort result: 0-based column indices
    Normalized,     \* the columns copied at line 80, before normalisation
    rk_pc,          \* "off", "start", "ranked"
    \* ---- Run (examples/Run1.py)
    X,              \* feature rows; a row is named by its position in the file
    T,              \* time of every sample
    O,              \* censoring flag of every sample
    loaded,         \* history: X, T, O as loaded at lines 65-70
    order,          \* the permutation drawn in the last shuffle
    run_i,          \* the next shuffle index i of range(N_SHUFFLES)
    train_set,      \* dict X, T, O, A of the train partition
    test_set,       \* dict of the test partition
    val_set,        \* dict of the validation partition
    cindex_results, \* one test C-index per completed shuffle
    files,          \* files written: train_set, val_set, final_model, c_index_list
    run_pc          \* "off", "loop", "saved"

ca_vars == << Raw, Symbols, Labels, Tau, Significant, SignificantIdx, Tested, Mutations,
              CNVs, ca_i, ca_p, ca_pc, ca_err, SampleOrder, SigMut, SigCNV,
              RC_Mutations, RC_CNVs >>

rk_vars == << Gradients, N, Order, Normalized, rk_pc >>

run_vars == << X, T, O, loaded, order, run_i, train_set, test_set, val_set,
               cindex_results, files, run_pc >>

vars == << ca_vars, rk_vars, run_vars >>

----------------------------------------------------------------------------
(* Generic helpers                                                          *)

Abs(x) == IF x < 0 THEN -x ELSE x

Range(s) == { s[k] : k \in DOMAIN s }

FloorDiv(a, b) == a \div b

CeilDiv(a, b) == (a + b - 1) \div b

RECURSIVE SumTo(_, _, _)
\* f[lo] + ... + f[hi]
SumTo(f, lo, hi) == IF lo > hi THEN 0 ELSE f[lo] + SumTo(f, lo + 1, hi)

RECURSIVE SeqMax(_, _)
\* np.max over the first n entries of a sequence
SeqMax(s, n) ==
    IF n = 1 THEN s[1]
    ELSE LET m == SeqMax(s, n - 1) IN IF s[n] > m THEN s[n] ELSE m

----------------------------------------------------------------------------
(* Python string operations on symbols                                      *)

RECURSIVE RFindFrom(_, _, _)
RFindFrom(str, ch, k) ==
    IF k = 0 THEN -1
    ELSE IF str[k] = ch THEN k - 1 ELSE RFindFrom(str, ch, k - 1)

\* str.rfind(str, ch): the 0-based index of the last ch, -1 when there is none
RFind(str, ch) == RFindFrom(str, ch, Len(str))

\* str[start:] for a 0-based start >= 0
SliceFrom(str, start) == SubSeq(str, start + 1, Len(str))

\* str[-n:]
LastN(str, n) == IF Len(str) <= n THEN str ELSE SubSeq(str, Len(str) - n + 1, Len(str))

IsSpace(ch) == ch = " "

RECURSIVE LStrip(_)
LStrip(str) ==
    IF str = << >> THEN str
    ELSE IF IsSpace(Head(str)) THEN LStrip(Tail(str)) ELSE str

RECURSIVE RStrip(_)
RStrip(str) ==
    IF str = << >> THEN str
    ELSE IF IsSpace(str[Len(str)]) THEN RStrip(SubSeq(str, 1, Len(str) - 1)) ELSE str

\* str.strip()
Strip(str) == RStrip(LStrip(str))

MutSuffix == << "M", "u", "t" >>

CNVSuffix == << "C", "N", "V" >>

UMutSuffix == << "_", "M", "u", "t" >>

UCNVSuffix == << "_", "C", "N", "V" >>

\* Suffix = [Symbol[str.rfind(str(Symbol), '_')+1:] for Symbol in Symbols]
SuffixOf(Symbol) == SliceFrom(Symbol, RFind(Symbol, "_") + 1)

Suffix(Symbs) == [ k \in DOMAIN Symbs |-> SuffixOf(Symbs[k]) ]

RECURSIVE IndicesWithSuffix(_, _, _)
\* [index for index, x in enumerate(Suffixes) if x == want], 0-based indices
IndicesWithSuffix(Suffixes, want, k) ==
    IF k > Len(Suffixes) THEN << >>
    ELSE IF Suffixes[k] = want
         THEN << k - 1 >> \o IndicesWithSuffix(Suffixes, want, k + 1)
         ELSE IndicesWithSuffix(Suffixes, want, k + 1)

\* Mutations = [index for index, x in enumerate(Suffix) if x == "Mut"]
MutationIndices(Symbs) == IndicesWithSuffix(Suffix(Symbs), MutSuffix, 1)

\* CNVs = [index for index, x in enumerate(Suffix) if x == "CNV"]
CNVIndices(Symbs) == IndicesWithSuffix(Suffix(Symbs), CNVSuffix, 1)

----------------------------------------------------------------------------
(* chi2.sf(statistic, dof) against Tau.  The statistic is a bracket          *)
(* [statLo, statHi] in hundredths.  For an even dof = 2m,                    *)
(*   sf(x, 2m) = exp(-x/2) * sum_{i<m} (x/2)^i / i!                          *)
(* and sf is increasing in dof, so an odd dof lies between its neighbours.   *)
(* p < Tau is then  sum < Tau * exp(x/2); exp is bracketed in steps of 1/8   *)
(* from 1.1331 < e^(1/8) < 1.1332.                                           *)

\* a lower bound of b * e^(1/8)
MulLo(b) == b + (((b \div 1000) * 1331) \div 10) + (((b % 1000) * 1331) \div 10000)

\* an upper bound of b * e^(1/8)
MulHi(b) == b + CeilDiv((b \div 1000) * 1332, 10) + CeilDiv((b % 1000) * 1332, 10000)

RECURSIVE GrowLo(_, _, _)
\* a lower bound of b * e^(k/8); growth stops once it exceeds a
GrowLo(b, k, a) == IF k <= 0 \/ b > a THEN b ELSE GrowLo(MulLo(b), k - 1, a)

RECURSIVE GrowHi(_, _, _)
\* an upper bound of b * e^(k/8); growth stops once it exceeds a
GrowHi(b, k, a) == IF k <= 0 \/ b > a THEN b ELSE GrowHi(MulHi(b), k - 1, a)

\* both sides of a comparison are scaled up while they are small
Scale(a) == IF a <= 200000 THEN 1000 ELSE 1

RECURSIVE SeriesTermLo(_, _)
\* a lower bound of 100 * (x/2)^n / n! for x >= statLo / 100
SeriesTermLo(statLo, n) ==
    IF n = 0 THEN 100 ELSE (SeriesTermLo(statLo, n - 1) * statLo) \div (200 * n)

RECURSIVE SeriesTermHi(_, _)
\* an upper bound of 100 * (x/2)^n / n! for x <= statHi / 100
SeriesTermHi(statHi, n) ==
    IF n = 0 THEN 100 ELSE CeilDiv(SeriesTermHi(statHi, n - 1) * statHi, 200 * n)

RECURSIVE SeriesLo(_, _)
SeriesLo(statLo, m) ==
    IF m = 0 THEN 0 ELSE SeriesLo(statLo, m - 1) + SeriesTermLo(statLo, m - 1)

RECURSIVE SeriesHi(_, _)
SeriesHi(statHi, m) ==
    IF m = 0 THEN 0 ELSE SeriesHi(statHi, m - 1) + SeriesTermHi(statHi, m - 1)

\* The outcomes of `p < Tau` for p = chi2.sf(stat, dof): "nan" when dof is not
\* positive (scipy returns nan for invalid shape parameters), otherwise "sig"
\* (p < Tau), "nonsig" (p >= Tau), or both when the brackets do not decide.
Chi2SfVsTau(statLo, statHi, dof, tau) ==
    IF dof <= 0 THEN { "nan" }
    ELSE LET aHi == tau.den * SeriesHi(statHi, (dof + 1) \div 2)
             aLo == tau.den * SeriesLo(statLo, dof \div 2)
             kLo == statLo \div 25
             kHi == CeilDiv(statHi, 25)
         IN IF GrowLo(tau.num * 100 * Scale(aHi), kLo, aHi * Scale(aHi)) > aHi * Scale(aHi)
            THEN { "sig" }
            ELSE IF GrowHi(tau.num * 100 * Scale(aLo), kHi, aLo * Scale(aLo)) <= aLo * Scale(aLo)
                 THEN { "nonsig" }
                 ELSE { "sig", "nonsig" }

----------------------------------------------------------------------------
(* The mutation test: lines 246-257 of RiskCluster.py                        *)

\* np.max(Labels)
MaxLabel == SeqMax(Labels, Len(Labels))

\* np.sum(Raw[Labels == j, f] == r), f a 0-based column
CountEqual(f, j, r) ==
    Cardinality({ s \in DOMAIN Labels : Labels[s] = j /\ Raw[s][f + 1] = r })

\* a table whose two rows both count the value 0
Observed_ZeroInBothRows(f) ==
    [ r \in 0..1 |-> [ j \in 1..MaxLabel |-> CountEqual(f, j, 0) ] ]

\* Observed[0, j-1] counts the value 0 and Observed[1, j-1] the value 1
Observed(f) ==
    [ r \in 0..1 |-> [ j \in 1..MaxLabel |-> CountEqual(f, j, r) ] ]

\* RowSum = np.sum(Observed, axis=0): one total per cluster
RowSum(Obs) == [ j \in 1..MaxLabel |-> Obs[0][j] + Obs[1][j] ]

\* ColSum = np.sum(Observed, axis=1): one total per value
ColSum(Obs) == [ r \in 0..1 |-> SumTo(Obs[r], 1, MaxLabel) ]

\* Expected = np.outer(ColSum, RowSum) / np.sum(Observed.flatten()), as
\* fractions; den = 0 is the 0/0 of an empty table (nan)
Expected(Obs) ==
    LET total == ColSum(Obs)[0] + ColSum(Obs)[1]
    IN  [ r \in 0..1 |-> [ j \in 1..MaxLabel |->
            [ num |-> ColSum(Obs)[r] * RowSum(Obs)[j], den |-> total ] ] ]

\* one term (O - E)^2 / E of the statistic, E = num/den > 0, in hundredths
TermLo(o, e) == (100 * (o * e.den - e.num) * (o * e.den - e.num)) \div (e.den * e.num)

TermHi(o, e) == CeilDiv(100 * (o * e.den - e.num) * (o * e.den - e.num), e.den * e.num)

\* scipy.stats.chisquare(Observed, Expected, ddof, axis=None) against Tau.
\* A cell with E = 0 and O = 0 (or E = nan) makes the statistic nan; a cell
\* with E = 0 < O makes it infinite (p = 0).
ChiSquare(Obs, Exp, ddof, tau) ==
    LET cells  == (0..1) \X (1..MaxLabel)
        nanE(c) == Exp[c[1]][c[2]].den = 0
                   \/ (Exp[c[1]][c[2]].num = 0 /\ Obs[c[1]][c[2]] = 0)
        infE(c) == Exp[c[1]][c[2]].den # 0 /\ Exp[c[1]][c[2]].num = 0
                   /\ Obs[c[1]][c[2]] # 0
        lo == [ r \in 0..1 |->
                SumTo([ j \in 1..MaxLabel |-> TermLo(Obs[r][j], Exp[r][j]) ], 1, MaxLabel) ]
        hi == [ r \in 0..1 |->
                SumTo([ j \in 1..MaxLabel |-> TermHi(Obs[r][j], Exp[r][j]) ], 1, MaxLabel) ]
        dof == Cardinality(cells) - 1 - ddof
    IN  IF \E c \in cells : nanE(c) THEN { "nan" }
        ELSE IF dof <= 0 THEN { "nan" }
        ELSE IF \E c \in cells : infE(c) THEN { "sig" }
        ELSE Chi2SfVsTau(lo[0] + lo[1], hi[0] + hi[1], dof, tau)

\* stat, p = chisquare(Observed, Expected, ddof=1, axis=None), then p < Tau
MutationTest(f) == ChiSquare(Observed(f), Expected(Observed(f)), 1, Tau)

----------------------------------------------------------------------------
(* The copy-number test: scipy.stats.mstats.kruskalwallis over the clusters  *)

\* twice the average rank of sample s among all values of column f
Rank2(f, s) ==
    2 * Cardinality({ t \in DOMAIN Labels : Raw[t][f + 1] < Raw[s][f + 1] })
    + Cardinality({ t \in DOMAIN Labels : Raw[t][f + 1] = Raw[s][f + 1] }) + 1

\* twice the rank sum of group j (CNVj = Raw[Labels == j, f])
RankSum2(f, j) ==
    SumTo([ s \in DOMAIN Labels |-> IF Labels[s] = j THEN Rank2(f, s) ELSE 0 ],
          1, Len(Labels))

GroupSize(j) == Cardinality({ s \in DOMAIN Labels : Labels[s] = j })

RECURSIVE TiedSum(_, _)
\* sum of t^3 - t over the groups of tied values of column f
TiedSum(f, values) ==
    IF values = {} THEN 0
    ELSE LET v == CHOOSE x \in values : TRUE
             t == Cardinality({ s \in DOMAIN Labels : Raw[s][f + 1] = v })
         IN  (t * t * t - t) + TiedSum(f, values \ { v })

\* the tie correction T = 1 - sum(t^3 - t) / (n^3 - n) as a fraction
TieCorrection(f) ==
    LET n == Len(Labels)
    IN  [ num |-> (n * n * n - n) - TiedSum(f, { Raw[s][f + 1] : s \in DOMAIN Labels }),
          den |-> n * n * n - n ]

\* kruskalwallis(CNV1, ..., CNVk) against Tau: H = 12/(n(n+1)) * sum(R_j^2/n_j)
\* - 3(n+1), divided by T; ValueError('All numbers are identical in kruskal')
\* when T = 0; p = chi2.sf(H, k - 1)
KruskalWallis(f, ngroups, tau) ==
    LET n == Len(Labels)
        tie == TieCorrection(f)
        aLo == SumTo([ j \in 1..ngroups |->
                       (100 * RankSum2(f, j) * RankSum2(f, j)) \div GroupSize(j) ],
                     1, ngroups)
        aHi == SumTo([ j \in 1..ngroups |->
                       CeilDiv(100 * RankSum2(f, j) * RankSum2(f, j), GroupSize(j)) ],
                     1, ngroups)
        hLo == (3 * aLo) \div (n * (n + 1)) - 300 * (n + 1)
        hHi == CeilDiv(3 * aHi, n * (n + 1)) - 300 * (n + 1)
        cLo == IF hLo <= 0 THEN 0 ELSE (hLo * tie.den) \div tie.num
        cHi == IF hHi <= 0 THEN 0 ELSE CeilDiv(hHi * tie.den, tie.num)
    IN  IF tie.num = 0 THEN { "ValueError" }
        ELSE Chi2SfVsTau(cLo, cHi, ngroups - 1, tau)

\* lines 264-285: the test runs only for 2, 3, 4 or 5 clusters; for any other
\* count no branch assigns p, and the comparison reads the p left behind
CNVTest(f) ==
    CASE MaxLabel = 2 -> KruskalWallis(f, 2, Tau)
      [] MaxLabel = 3 -> KruskalWallis(f, 3, Tau)
      [] MaxLabel = 4 -> KruskalWallis(f, 4, Tau)
      [] MaxLabel = 5 -> KruskalWallis(f, 5, Tau)
      [] OTHER -> { ca_p }

----------------------------------------------------------------------------
(* The parts of the program that are not running in a given specification    *)

CAOff ==
    /\ Raw = << >> /\ Symbols = << >> /\ Labels = << >> /\ Tau = [ num |-> 0, den |-> 1 ]
    /\ Significant = << >> /\ SignificantIdx = << >> /\ Tested = << >>
    /\ Mutations = << >> /\ CNVs = << >> /\ ca_i = 0 /\ ca_p = "unbound"
    /\ ca_pc = "off" /\ ca_err = "none" /\ SampleOrder = << >>
    /\ SigMut = << >> /\ SigCNV = << >> /\ RC_Mutations = << >> /\ RC_CNVs = << >>

RankOff ==
    /\ Gradients = << >> /\ N = 0 /\ Order = << >> /\ Normalized = << >> /\ rk_pc = "off"

RunOff ==
    /\ X = << >> /\ T = << >> /\ O = << >> /\ loaded = << >> /\ order = << >>
    /\ run_i = 0
    /\ train_set = << >> /\ test_set = << >> /\ val_set = << >>
    /\ cindex_results = << >> /\ files = << >> /\ run_pc = "off"

----------------------------------------------------------------------------
(* Inputs of the analysis                                                    *)

NumFeatures == 2

\* symbols the classification of lines 237-241 accepts
TestedSymbolChoices ==
    { << "a", "_", "M", "u", "t" >>,        \* a_Mut
      << "b", "_", "C", "N", "V" >>,        \* b_CNV
      << "M", "u", "t" >> }                 \* Mut, no underscore

\* symbols it rejects
UntestedSymbolChoices ==
    { << "a", "_", "m", "u", "t" >>,        \* a_mut, other case
      << "a", "_", "M", "u", "t", " " >>,   \* a_Mut followed by a blank
      << "g" >> }                           \* no suffix at all

\* k clusters of `per` samples each, labelled 1..k
Balanced(k, per) == [ s \in 1..(k * per) |-> ((s - 1) \div per) + 1 ]

LabelChoices ==
    { Balanced(1, 2), Balanced(2, 3), Balanced(2, 25), Balanced(3, 2),
      Balanced(4, 2), Balanced(5, 2), Balanced(6, 4) }

ColumnPatterns == { "zero", "split", "alt", "level" }

\* the raw value of sample s in a column of the given pattern
PatternValue(pat, s, L) ==
    CASE pat = "zero"  -> 0
      [] pat = "split" -> IF L[s] = 1 THEN 0 ELSE 1
      [] pat = "alt"   -> s % 2
      [] pat = "level" -> L[s]

TauChoices == { [ num |-> 1, den |-> 1000 ], [ num |-> 1, den |-> 20 ] }

\* a feature column: its symbol and the pattern of its raw values. The raw
\* values of a column whose symbol is rejected are never read, so one pattern
\* stands for all of them.
FeatureChoices ==
    (TestedSymbolChoices \X ColumnPatterns) \cup (UntestedSymbolChoices \X { "zero" })

\* dendrogram leaf orders of n samples (0-based): as given, and reversed
LeafOrders(n) == { [ c \in 1..n |-> c - 1 ], [ c \in 1..n |-> n - c ] }

----------------------------------------------------------------------------
(* ClusterAssociations, one step per loop iteration                          *)

InitCA ==
    /\ \E L \in LabelChoices, feats \in [ 1..NumFeatures -> FeatureChoices ],
          tau \in TauChoices :
          /\ Labels = L
          /\ Symbols = [ f \in 1..NumFeatures |-> feats[f][1] ]
          /\ Raw = [ s \in DOMAIN L |->
                     [ f \in 1..NumFeatures |-> PatternValue(feats[f][2], s, L) ] ]
          /\ Tau = tau
    /\ Significant = << >>
    /\ SignificantIdx = << >>
    /\ Tested = << >>
    /\ Mutations = << >>
    /\ CNVs = << >>
    /\ ca_i = 0
    /\ ca_p = "unbound"
    /\ ca_pc = "start"
    /\ ca_err = "none"
    /\ SampleOrder = << >>
    /\ SigMut = << >>
    /\ SigCNV = << >>
    /\ RC_Mutations = << >>
    /\ RC_CNVs = << >>
    /\ RankOff
    /\ RunOff

ca_inputs == << Raw, Symbols, Labels, Tau >>

ca_tracks == << SampleOrder, SigMut, SigCNV, RC_Mutations, RC_CNVs >>

\* lines 233-241: the empty result and the two index lists
Classify ==
    /\ ca_pc = "start"
    /\ UNCHANGED << rk_vars, run_vars >>
    /\ Significant' = << >>
    /\ SignificantIdx' = << >>
    /\ Tested' = << >>
    /\ Mutations' = MutationIndices(Symbols)
    /\ CNVs' = CNVIndices(Symbols)
    /\ ca_i' = 0
    /\ ca_pc' = "mut"
    /\ UNCHANGED << ca_inputs, ca_tracks, ca_p, ca_err >>

\* lines 244-258: one iteration of the mutation loop
TestMutation ==
    /\ ca_pc = "mut"
    /\ UNCHANGED << rk_vars, run_vars >>
    /\ ca_i < Len(Mutations)
    /\ \E outcome \in MutationTest(Mutations[ca_i + 1]) :
          /\ ca_p' = outcome
          /\ Significant' =
                IF outcome = "sig"
                THEN Append(Significant, Symbols[Mutations[ca_i + 1] + 1])
                ELSE Significant
          /\ SignificantIdx' =
                IF outcome = "sig"
                THEN Append(SignificantIdx, Mutations[ca_i + 1])
                ELSE SignificantIdx
          /\ Tested' = Append(Tested, [ f |-> Mutations[ca_i + 1], kind |-> "mut",
                                        outcome |-> outcome ])
    /\ ca_i' = ca_i + 1
    /\ UNCHANGED << ca_inputs, ca_tracks, Mutations, CNVs, ca_pc, ca_err >>

\* the mutation loop is exhausted: on to line 261
EndMutations ==
    /\ ca_pc = "mut"
    /\ UNCHANGED << rk_vars, run_vars >>
    /\ ca_i = Len(Mutations)
    /\ ca_pc' = "cnv"
    /\ ca_i' = 0
    /\ UNCHANGED << ca_inputs, ca_tracks, Significant, SignificantIdx, Tested,
                    Mutations, CNVs, ca_p, ca_err >>

\* lines 261-287: one iteration of the copy-number loop.  kruskalwallis may
\* raise; reading a p that was never assigned raises UnboundLocalError.
TestCNV ==
    /\ ca_pc = "cnv"
    /\ UNCHANGED << rk_vars, run_vars >>
    /\ ca_i < Len(CNVs)
    /\ \E outcome \in CNVTest(CNVs[ca_i + 1]) :
          IF outcome \in { "ValueError", "unbound" }
          THEN /\ ca_pc' = "raised"
               /\ ca_err' = IF outcome = "unbound" THEN "UnboundLocalError" ELSE outcome
               /\ UNCHANGED << Significant, SignificantIdx, Tested, ca_p, ca_i >>
          ELSE /\ ca_p' = outcome
               /\ Significant' =
                     IF outcome = "sig"
                     THEN Append(Significant, Symbols[CNVs[ca_i + 1] + 1])
                     ELSE Significant
               /\ SignificantIdx' =
                     IF outcome = "sig"
                     THEN Append(SignificantIdx, CNVs[ca_i + 1])
                     ELSE SignificantIdx
               /\ Tested' = IF MaxLabel \in 2..5
                            THEN Append(Tested, [ f |-> CNVs[ca_i + 1], kind |-> "cnv",
                                                  outcome |-> outcome ])
                            ELSE Tested
               /\ ca_i' = ca_i + 1
               /\ UNCHANGED << ca_pc, ca_err >>
    /\ UNCHANGED << ca_inputs, ca_tracks, Mutations, CNVs >>

\* line 290: return Significant
ReturnSignificant ==
    /\ ca_pc = "cnv"
    /\ UNCHANGED << rk_vars, run_vars >>
    /\ ca_i = Len(CNVs)
    /\ ca_pc' = "returned"
    /\ UNCHANGED << ca_inputs, ca_tracks, Significant, SignificantIdx, Tested,
                    Mutations, CNVs, ca_i, ca_p, ca_err >>

----------------------------------------------------------------------------
(* RiskCluster after the call: lines 117-156                                 *)

RECURSIVE EndingIn(_, _, _)
\* [Symbol for Symbol in Sig if Symbol.strip()[-4:] == tail]
EndingIn(Sig, tail, k) ==
    IF k > Len(Sig) THEN << >>
    ELSE IF LastN(Strip(Sig[k]), 4) = tail
         THEN << Sig[k] >> \o EndingIn(Sig, tail, k + 1)
         ELSE EndingIn(Sig, tail, k + 1)

RECURSIVE IndicesIn(_, _, _)
\* Indices = [i for i, Symbol in enumerate(Symbs) if Symbol in set(Sig)]
IndicesIn(Symbs, Sig, k) ==
    IF k > Len(Symbs) THEN << >>
    ELSE IF Symbs[k] \in Range(Sig)
         THEN << k - 1 >> \o IndicesIn(Symbs, Sig, k + 1)
         ELSE IndicesIn(Symbs, Sig, k + 1)

\* Raw[:, Indices][leaves, :].T : one row per index, columns in leaf order
Track(Indices, leaves) ==
    [ k \in 1..Len(Indices) |->
        [ c \in 1..Len(leaves) |-> Raw[leaves[c] + 1][Indices[k] + 1] ] ]

BuildTracks ==
    /\ ca_pc = "returned"
    /\ UNCHANGED << rk_vars, run_vars >>
    /\ \E leaves \in LeafOrders(Len(Labels)) :
          /\ SampleOrder' = leaves
          /\ SigMut' = EndingIn(Significant, UMutSuffix, 1)
          /\ RC_Mutations' =
                Track(IndicesIn(Symbols, EndingIn(Significant, UMutSuffix, 1), 1), leaves)
          /\ SigCNV' = EndingIn(Significant, UCNVSuffix, 1)
          /\ RC_CNVs' =
                Track(IndicesIn(Symbols, EndingIn(Significant, UCNVSuffix, 1), 1), leaves)
    /\ ca_pc' = "done"
    /\ UNCHANGED << ca_inputs, Significant, SignificantIdx, Tested, Mutations,
                    CNVs, ca_i, ca_p, ca_err >>

NextCA ==
    \/ Classify
    \/ TestMutation
    \/ EndMutations
    \/ TestCNV
    \/ ReturnSignificant
    \/ BuildTracks

SpecCA == InitCA /\ [][NextCA]_vars

----------------------------------------------------------------------------
(* RiskCluster, lines 76-80: rank the features and copy the top N columns    *)

GradSamples == 2

GradFeatures == 2

GradientValues == { -1, 0, 1 }

\* Z[a:b] for 0 <= a, Python's half-open slice
Slice(Z, a, b) == SubSeq(Z, a + 1, IF b > Len(Z) THEN Len(Z) ELSE b)

\* np.mean(G, axis=0)[f] as a fraction, f a 0-based column
Mean(G, f) ==
    [ num |-> SumTo([ s \in 1..Len(G) |-> G[s][f + 1] ], 1, Len(G)), den |-> Len(G) ]

\* the ranking key without the magnitude: -np.mean(Gradients, axis=0)[f]
RankKey_NoAbs(G, f) == [ num |-> -Mean(G, f).num, den |-> Mean(G, f).den ]

\* -np.abs(np.mean(Gradients, axis=0))[f]
RankKey(G, f) == [ num |-> -Abs(Mean(G, f).num), den |-> Mean(G, f).den ]

\* a < b for fractions with positive denominators
FracLess(a, b) == a.num * b.den < b.num * a.den

\* the orderings of 0..n-1
Permutations0(n) ==
    { q \in [ 1..n -> 0..(n - 1) ] : \A a, b \in 1..n : a # b => q[a] # q[b] }

\* np.argsort(keys) with the default kind: quicksort, which numpy documents as
\* not stable, so every ordering that sorts the keys is a possible result
Argsort(G) ==
    { q \in Permutations0(Len(G[1])) :
        \A a \in 1..(Len(q) - 1) : ~FracLess(RankKey(G, q[a + 1]), RankKey(G, q[a])) }

\* G[:, idx]
TakeColumns(G, idx) ==
    [ s \in 1..Len(G) |-> [ k \in 1..Len(idx) |-> G[s][idx[k] + 1] ] ]

InitRank ==
    /\ Gradients \in [ 1..GradSamples -> [ 1..GradFeatures -> GradientValues ] ]
    /\ N \in 1..GradFeatures
    /\ Order = << >>
    /\ Normalized = << >>
    /\ rk_pc = "start"
    /\ CAOff
    /\ RunOff

\* Order = np.argsort(...); Normalized = Gradients[:, Order[0:N]].copy()
RankFeatures ==
    /\ rk_pc = "start"
    /\ \E q \in Argsort(Gradients) :
          /\ Order' = q
          /\ Normalized' = TakeColumns(Gradients, Slice(q, 0, N))
    /\ rk_pc' = "ranked"
    /\ UNCHANGED << Gradients, N, ca_vars, run_vars >>

NextRank == RankFeatures

SpecRank == InitRank /\ [][NextRank]_vars

----------------------------------------------------------------------------
(* Run, lines 85-170: the shuffle loop and the saved results                 *)

N_SHUFFLES == 20

NumSamples == 10

\* times of n samples: all different, tied in pairs, and three values in turn
TimeChoices(n) ==
    { [ k \in 1..n |-> k ], [ k \in 1..n |-> (k + 1) \div 2 ], [ k \in 1..n |-> 1 + (k % 3) ] }

CensorChoices(n) == { [ k \in 1..n |-> k % 2 ], [ k \in 1..n |-> 1 ] }

\* results of RandomState(i).permutation(np.arange(n)): unchanged, rotated by
\* one, reversed
PermutationChoices(n) ==
    { [ k \in 1..n |-> k - 1 ], [ k \in 1..n |-> k % n ], [ k \in 1..n |-> n - k ] }

\* Z[order]
Permute(Z, ord) == [ k \in 1..Len(Z) |-> Z[ord[k] + 1] ]

\* line 92: X = X[order]
ShuffledX(ord) == Permute(X, ord)

\* line 93: O = O[order]
ShuffledO(ord) == Permute(O, ord)

\* the times left in the order of the previous pass
ShuffledT_Unpermuted(ord) == T

\* line 94: T = T[order]
ShuffledT(ord) == Permute(T, ord)

\* fold_size = int(20 * len(X) / 100)
FoldSize(n) == (20 * n) \div 100

\* lines 111-113: Z[2*fold_size:]
TrainPart(Z, fold) == Slice(Z, 2 * fold, Len(Z))

\* lines 115-117: Z[:fold_size]
TestPart(Z, fold) == Slice(Z, 0, fold)

\* the first fold taken again: Z[:fold_size]
ValPart_FromStart(Z, fold) == Slice(Z, 0, fold)

\* lines 119-121: Z[fold_size:2*fold_size]
ValPart(Z, fold) == Slice(Z, fold, 2 * fold)

\* SurvivalAnalysis.calc_at_risk(X, T, O) -> (X, T, O, A), A[a][b] = 1 iff
\* T[b] > T[a]
CalcAtRisk(Xp, Tp, Op) ==
    [ X |-> Xp, T |-> Tp, O |-> Op,
      A |-> [ a \in 1..Len(Tp) |-> [ b \in 1..Len(Tp) |-> IF Tp[b] > Tp[a] THEN 1 ELSE 0 ] ] ]

NumEpochs == 2

\* one value per epoch of the named metric in the training of shuffle i
Metric(name, i) == [ e \in 1..NumEpochs |-> << name, i, e >> ]

\* train(...) for shuffle i -> (train_costs, train_cindices, val_costs,
\* val_cindices, test_costs, test_cindices, model, extra)
Train(i) ==
    << Metric("train_costs", i), Metric("train_cindices", i),
       Metric("val_costs", i), Metric("val_cindices", i),
       Metric("test_costs", i), Metric("test_cindices", i),
       << "model", i >>, << "extra", i >> >>

\* line 158: _, train_cindices, _, test_cindices, _, _, model, _ = train(...)
Unpacked(result) ==
    [ train_cindices |-> result[2], test_cindices |-> result[4], model |-> result[7] ]

\* Z[-1] of a non-empty list
LastOf(Z) == Z[Len(Z)]

InitRun ==
    /\ \E t \in TimeChoices(NumSamples), o \in CensorChoices(NumSamples) :
          /\ X = [ k \in 1..NumSamples |-> k ]
          /\ T = t
          /\ O = o
          /\ loaded = [ X |-> [ k \in 1..NumSamples |-> k ], T |-> t, O |-> o ]
    /\ order = << >>
    /\ run_i = 0
    /\ train_set = << >>
    /\ test_set = << >>
    /\ val_set = << >>
    /\ cindex_results = << >>
    /\ files = [ train_set |-> << >>, val_set |-> << >>, final_model |-> << >>,
                 c_index_list |-> << >> ]
    /\ run_pc = "loop"
    /\ CAOff
    /\ RankOff

\* lines 88-167: one pass of `for i in range(N_SHUFFLES)`
Shuffle ==
    /\ run_pc = "loop"
    /\ run_i < N_SHUFFLES
    /\ \E ord \in PermutationChoices(Len(X)) :
          LET X1 == ShuffledX(ord)
              O1 == ShuffledO(ord)
              T1 == ShuffledT(ord)
              fold_size == FoldSize(Len(X1))
              train1 == CalcAtRisk(TrainPart(X1, fold_size), TrainPart(T1, fold_size),
                                   TrainPart(O1, fold_size))
              test1 == CalcAtRisk(TestPart(X1, fold_size), TestPart(T1, fold_size),
                                  TestPart(O1, fold_size))
              val1 == CalcAtRisk(ValPart(X1, fold_size), ValPart(T1, fold_size),
                                 ValPart(O1, fold_size))
          IN  /\ order' = ord
              /\ X' = X1
              /\ O' = O1
              /\ T' = T1
              /\ train_set' = train1
              /\ test_set' = test1
              /\ val_set' = val1
              /\ cindex_results' =
                    Append(cindex_results, LastOf(Unpacked(Train(run_i)).test_cindices))
              /\ files' = [ files EXCEPT !.train_set = << train1 >>,
                                         !.val_set = << val1 >>,
                                         !.final_model = << Unpacked(Train(run_i)).model >> ]
    /\ run_i' = run_i + 1
    /\ UNCHANGED << loaded, run_pc, ca_vars, rk_vars >>

\* lines 169-170: sio.savemat(outputFileName, {'c_index': cindex_results})
SaveResults ==
    /\ run_pc = "loop"
    /\ run_i = N_SHUFFLES
    /\ files' = [ files EXCEPT !.c_index_list = << cindex_results >> ]
    /\ run_pc' = "saved"
    /\ UNCHANGED << X, T, O, loaded, order, run_i, train_set, test_set, val_set,
                    cindex_results, ca_vars, rk_vars >>

NextRun ==
    \/ Shuffle
    \/ SaveResults

SpecRun == InitRun /\ [][NextRun]_vars

(* CLAIMS-BEGIN *)
----------------------------------------------------------------------------
(* Properties of ClusterAssociations and of the annotation tracks            *)

\* the symbol of feature f (0-based) ends in exactly the four characters tail
EndsIn(f, tail) == LastN(Symbols[f + 1], 4) = tail

\* the call has ended, by return or by an exception
CAEnded == ca_pc \in { "returned", "raised", "done" }

CAReturned == ca_pc \in { "returned", "done" }

\* the feature whose test raised
RaisedAt(f) == ca_pc = "raised" /\ ca_i < Len(CNVs) /\ CNVs[ca_i + 1] = f

\* every sample has the same raw value in column f
ConstantColumn(f) == \A s, t \in DOMAIN Labels : Raw[s][f + 1] = Raw[t][f + 1]

FeatureIdx == 0..(Len(Symbols) - 1)

\* C1: with a cluster count outside 2..5 no '_CNV' symbol is ever appended to
\* the result and the call does not raise.
C1_CNVSkippedOutsideRange ==
    (MaxLabel \notin 2..5) =>
        /\ ca_pc # "raised"
        /\ \A k \in DOMAIN SignificantIdx : ~EndsIn(SignificantIdx[k], UCNVSuffix)

\* C2: a feature is classified as mutation only if its symbol ends in '_Mut'
\* and as copy-number only if it ends in '_CNV'; a symbol with any other
\* ending is never tested, never returned and never the cause of an error.
C2_OnlyExactSuffixes ==
    \A f \in FeatureIdx :
        /\ f \in Range(Mutations) => EndsIn(f, UMutSuffix)
        /\ f \in Range(CNVs) => EndsIn(f, UCNVSuffix)
        /\ (~EndsIn(f, UMutSuffix) /\ ~EndsIn(f, UCNVSuffix)) =>
              /\ \A k \in DOMAIN Tested : Tested[k].f # f
              /\ f \notin Range(SignificantIdx)
              /\ ~RaisedAt(f)

RECURSIVE Ascending(_)
\* the members of a finite set of integers in ascending order
Ascending(S) ==
    IF S = {} THEN << >>
    ELSE LET m == CHOOSE x \in S : \A y \in S : x <= y
         IN  << m >> \o Ascending(S \ { m })

\* the features of one kind whose test gave p < Tau
TestedSignificant(kind) ==
    { Tested[k].f : k \in { n \in DOMAIN Tested :
                              Tested[n].kind = kind /\ Tested[n].outcome = "sig" } }

\* the list claim C3 describes
QualifyingSymbols ==
    LET idx == Ascending(TestedSignificant("mut")) \o Ascending(TestedSignificant("cnv"))
    IN  [ k \in DOMAIN idx |-> Symbols[idx[k] + 1] ]

\* C3: the returned list is the symbols of the mutation features with p < Tau
\* in ascending index order, followed by those of the copy-number features
\* with p < Tau in ascending index order.
C3_ReturnedOrder == CAReturned => Significant = QualifyingSymbols

\* C3, within the supported cluster counts: the same statement for K in 2..5
C3_ReturnedOrderInRange ==
    (CAReturned /\ MaxLabel \in 2..5) => Significant = QualifyingSymbols

\* C4: a mutation or copy-number feature with one and the same raw value in
\* every sample is never reported and never makes the call raise.
C4_DegenerateNotSignificant ==
    \A f \in FeatureIdx :
        (ConstantColumn(f) /\ (f \in Range(Mutations) \/ f \in Range(CNVs))) =>
            /\ f \notin Range(SignificantIdx)
            /\ ~RaisedAt(f)

\* C4, the mutation half: a constant mutation column is never reported (its
\* statistic is nan) and the mutation loop never raises
C4_DegenerateMutationNotSignificant ==
    \A f \in FeatureIdx :
        (ConstantColumn(f) /\ f \in Range(Mutations)) =>
            /\ f \notin Range(SignificantIdx)
            /\ \A k \in DOMAIN Tested : Tested[k].f = f => Tested[k].outcome = "nan"

\* column f is 0 throughout cluster 1 and 1 throughout cluster 2
PerfectSplit(f) ==
    \A s \in DOMAIN Labels : Raw[s][f + 1] = IF Labels[s] = 1 THEN 0 ELSE 1

\* the mutation loop has passed feature f
MutationTestDone(f) ==
    \E k \in DOMAIN Mutations :
        Mutations[k] = f /\ (ca_pc \in { "cnv", "returned", "raised", "done" } \/ k <= ca_i)

\* C9: with two clusters of 25 samples and a mutation feature that is 0 in
\* cluster 1 and 1 in cluster 2, the feature is reported for every Tau >= 0.001.
C9_PerfectSplitSignificant ==
    (Labels = Balanced(2, 25) /\ Tau.num * 1000 >= Tau.den) =>
        \A f \in FeatureIdx :
            (EndsIn(f, UMutSuffix) /\ PerfectSplit(f) /\ MutationTestDone(f)) =>
                /\ f \in Range(SignificantIdx)
                /\ Symbols[f + 1] \in Range(Significant)

C9_Witness ==
    /\ ca_pc = "returned"
    /\ Labels = Balanced(2, 25)
    /\ Tau = [ num |-> 1, den |-> 1000 ]
    /\ \E f \in FeatureIdx :
          /\ EndsIn(f, UMutSuffix) /\ PerfectSplit(f)
          /\ Symbols[f + 1] \in Range(Significant)

RECURSIVE IdxEndingIn(_, _, _)
\* the entries of SignificantIdx, in order, whose symbol ends in tail
IdxEndingIn(idx, tail, k) ==
    IF k > Len(idx) THEN << >>
    ELSE IF EndsIn(idx[k], tail)
         THEN << idx[k] >> \o IdxEndingIn(idx, tail, k + 1)
         ELSE IdxEndingIn(idx, tail, k + 1)

\* matrix M has one row per entry of idx: the raw values of that feature, the
\* samples in dendrogram leaf order
RowsAre(M, idx) ==
    /\ Len(M) = Len(idx)
    /\ \A k \in DOMAIN idx :
          M[k] = [ c \in 1..Len(SampleOrder) |-> Raw[SampleOrder[c] + 1][idx[k] + 1] ]

\* C10: the mutation (CNV) annotation matrix has exactly one row per '_Mut'
\* ('_CNV') entry of the returned list, row k holding the raw values of the
\* feature behind the k-th such entry, columns in leaf order.
C10_TracksMatchSignificant ==
    ca_pc = "done" =>
        /\ RowsAre(RC_Mutations, IdxEndingIn(SignificantIdx, UMutSuffix, 1))
        /\ RowsAre(RC_CNVs, IdxEndingIn(SignificantIdx, UCNVSuffix, 1))

\* C10, when no two columns share a symbol
C10_TracksMatchDistinctSymbols ==
    (ca_pc = "done" /\ \A f, g \in FeatureIdx : Symbols[f + 1] = Symbols[g + 1] => f = g)
        => /\ RowsAre(RC_Mutations, IdxEndingIn(SignificantIdx, UMutSuffix, 1))
           /\ RowsAre(RC_CNVs, IdxEndingIn(SignificantIdx, UCNVSuffix, 1))

----------------------------------------------------------------------------
(* Run: partitions, risk sets and shuffling                                  *)

\* a pass of the shuffle loop has run
Shuffled == run_i >= 1

\* the fold size of the permuted data
Fold == (20 * Len(X)) \div 100

\* A is the strict risk-set matrix of the times T[off+1 .. off+size]
RiskSetOf(A, off, size) ==
    /\ Len(A) = size
    /\ \A a \in 1..size :
          /\ Len(A[a]) = size
          /\ \A b \in 1..size :
                /\ A[a][b] \in { 0, 1 }
                /\ A[a][b] = 1 <=> T[off + b] > T[off + a]

PartitionIs(P, off, size) ==
    /\ P.X = [ k \in 1..size |-> X[off + k] ]
    /\ P.T = [ k \in 1..size |-> T[off + k] ]
    /\ P.O = [ k \in 1..size |-> O[off + k] ]

\* every row of P carries the time and the censoring flag it was loaded with
RowsTogether(P) ==
    /\ Len(P.T) = Len(P.X)
    /\ Len(P.O) = Len(P.X)
    /\ \A k \in 1..Len(P.X) : P.T[k] = loaded.T[P.X[k]] /\ P.O[k] = loaded.O[P.X[k]]

\* the number of positions of P holding sample s
Occurrences(P, s) == Cardinality({ k \in 1..Len(P.X) : P.X[k] = s })

\* C6: in every pass, test is the first fold_size samples of the permuted
\* data, validation the next fold_size, train the remaining n - 2*fold_size,
\* fold_size = floor(20*n/100); every loaded sample is in exactly one
\* partition, once, with its own time and censoring flag.
C6_PartitionsDisjointAndComplete ==
    Shuffled =>
        /\ PartitionIs(test_set, 0, Fold)
        /\ PartitionIs(val_set, Fold, Fold)
        /\ PartitionIs(train_set, 2 * Fold, Len(X) - 2 * Fold)
        /\ \A s \in 1..Len(loaded.X) :
              Occurrences(train_set, s) + Occurrences(test_set, s) + Occurrences(val_set, s) = 1
        /\ \A P \in { train_set, test_set, val_set } : RowsTogether(P)

\* a second pass over rearranged data with non-empty folds
C6_Witness ==
    /\ run_i >= 2
    /\ X # loaded.X
    /\ T # loaded.T
    /\ order # [ k \in 1..Len(X) |-> k - 1 ]
    /\ Len(test_set.X) >= 2
    /\ Len(val_set.X) >= 2
    /\ Len(train_set.X) = Len(X) - 2 * Len(test_set.X)

\* C7: the arrangement used in a pass is the loaded data rearranged by that
\* pass's own permutation, whatever passes ran before it.
C7_ArrangementKeyedBySeedAlone ==
    Shuffled =>
        /\ X = Permute(loaded.X, order)
        /\ T = Permute(loaded.T, order)
        /\ O = Permute(loaded.O, order)

----------------------------------------------------------------------------
(* RiskCluster: the feature ranking                                          *)

Ranked == rk_pc = "ranked"

\* |sum of column f|; the columns share the divisor, so this orders |mean|
Magnitude(f) == Abs(SumTo([ s \in 1..Len(Gradients) |-> Gradients[s][f + 1] ], 1, Len(Gradients)))

\* Order lists every column once and Normalized holds the first N of them
SelectsFirstN ==
    /\ Len(Order) = Len(Gradients[1])
    /\ \A f \in 0..(Len(Gradients[1]) - 1) : \E a \in DOMAIN Order : Order[a] = f
    /\ \A s \in DOMAIN Gradients :
          Normalized[s] = [ k \in 1..N |-> Gradients[s][Order[k] + 1] ]

Descending == \A a, b \in DOMAIN Order : a < b => Magnitude(Order[a]) >= Magnitude(Order[b])

\* C8 as stated: the N columns of largest |mean gradient|, descending, equal
\* magnitudes in original column order.
C8_StableRanking ==
    Ranked =>
        /\ SelectsFirstN
        /\ Descending
        /\ \A a, b \in DOMAIN Order :
              (a < b /\ Magnitude(Order[a]) = Magnitude(Order[b])) => Order[a] < Order[b]

\* C8: the selected columns are N distinct columns in descending order of
\* |mean gradient|, and no unselected column has a larger |mean gradient|
\* than a selected one; the order among equal magnitudes is not determined.
C8_TopNByMagnitude ==
    Ranked =>
        /\ SelectsFirstN
        /\ Descending
        /\ \A a \in 1..N : \A b \in (N + 1)..Len(Order) :
              Magnitude(Order[a]) >= Magnitude(Order[b])

\* a ranking with equal magnitudes on both sides of the cut, and columns of
\* different magnitude
C8_Witness ==
    /\ Ranked
    /\ N < Len(Order)
    /\ Magnitude(Order[N]) = Magnitude(Order[N + 1])
    /\ Order[N] > Order[N + 1]
    /\ \E s \in DOMAIN Gradients : Gradients[s][Order[N] + 1] # Gradients[s][Order[N + 1] + 1]

----------------------------------------------------------------------------
(* Run: the recorded C-indices and the saved results                         *)

\* the c_index_list artifact has been written
ListWritten == files.c_index_list # << >>

\* the bookkeeping around the recorded values: one entry per finished pass,
\* the artifact written only after all passes, holding the recorded values
\* in order, next to the model of the last pass
RecordsKept ==
    /\ Len(cindex_results) = run_i
    /\ ListWritten =>
          /\ run_i = N_SHUFFLES
          /\ files.c_index_list = << cindex_results >>
          /\ Len(files.c_index_list[1]) = N_SHUFFLES
          /\ files.final_model = << Train(N_SHUFFLES - 1)[7] >>

\* C11: after k passes cindex_results has k entries, entry i being the
\* final-epoch test C-index train returned for shuffle i; c_index_list is
\* written only after all N_SHUFFLES passes and holds those values in shuffle
\* order, while final_model is the model of the last shuffle.
C11_OneTestCindexPerShuffle ==
    /\ RecordsKept
    /\ \A k \in DOMAIN cindex_results : cindex_results[k] = LastOf(Train(k - 1)[6])

\* C11, with the value the code takes: entry i is the last element of the
\* fourth sequence train returned for shuffle i
C11_OneFourthResultPerShuffle ==
    /\ RecordsKept
    /\ \A k \in DOMAIN cindex_results : cindex_results[k] = LastOf(Train(k - 1)[4])

\* C11, the single write: c_index_list changes only once, from absent to the
\* recorded values, when all passes are done
C11_ListWrittenOnce ==
    [][files'.c_index_list # files.c_index_list =>
          /\ ~ListWritten
          /\ run_i = N_SHUFFLES
          /\ files'.c_index_list = << cindex_results >>]_vars

====
